---- MODULE Spec2Model ----
(***************************************************************************)
(* The playback node of src/heartbeat_server.py (class HeartbeatServer):   *)
(* the accept loop, one handler thread per connection, the playback thread *)
(* a PLAY starts, and the external player processes it launches.           *)
(*                                                                         *)
(* Threads interleave between any two accesses of the shared attributes    *)
(* (is_playing, current_file, current_process, play_thread, play_lock):    *)
(* every such access is a step of its own.  Timeouts (Popen.wait(2),       *)
(* Thread.join(2.0)) carry no clock: a timed wait may end by timeout       *)
(* whenever the awaited event has not happened.                            *)
(*                                                                         *)
(* The controller of src/heartbeat_client.py (class                        *)
(* MusicNetworkController): the node registry, the fan-out of PLAY, STOP   *)
(* and PING, and the auto-play scheduler.  All of it runs in callbacks of  *)
(* the one GUI thread, so a callback runs to its end before the next one   *)
(* starts; a fan-out blocks that thread, and only the clock moves while    *)
(* an exchange waits for the network.  Warning dialogs are taken as        *)
(* dismissed before a timer fires.  Timers carry no period: a running      *)
(* timer may fire whenever the GUI thread is idle.  The clock counts       *)
(* ticks, TicksPerMinute to the minute and DayMinutes minutes to the day.  *)
(* The countdown label holds the text update_countdown last wrote, and     *)
(* state_file the content of the JSON file save_state writes and           *)
(* load_state reads at the next start.                                     *)
(***************************************************************************)
EXTENDS Integers, Sequences, FiniteSets, TLC

\* ---------------------------------------------------------------- bounds
MaxConn == 2          \* connections the node accepts in one run
MaxPlaycount == 2     \* largest playcount a PLAY request carries
MaxServers == 2       \* nodes the controller's registry holds
MaxTime == 7          \* ticks the controller's clock runs
DayMinutes == 2       \* minutes of a day
TicksPerMinute == 2   \* clock ticks in a minute
MaxInterval == 1      \* largest auto-play interval, in minutes

\* ------------------------------------------------------------- constants
MainThread == 0                       \* the thread running start()
Conn == 1..MaxConn                    \* connections, numbered as accepted
Callers == 0..MaxConn                 \* threads that may run stop_playback
None == "None"                        \* Python's None, for string values
NoThread == 0                         \* play_thread is None
NoProc == <<0, 0>>                    \* current_process is None
ExistingFiles == {"a.mp3"}            \* files present in documents_path
MissingFiles == {"x.mp3"}             \* names with no file behind them

\* The received bytes, by what decoding makes of them.
PlayData == [kind : {"PLAY"}, filename : ExistingFiles \cup MissingFiles,
             playcount : 1..MaxPlaycount]
OtherData == [kind : {"STOP", "PING", "UNKNOWN", "BADJSON", "NONOBJECT",
                      "BADUTF8", "EMPTY", "RECVERR"},
              filename : {None}, playcount : {0}]
Data == PlayData \cup OtherData
NoData == [kind |-> "none", filename |-> None, playcount |-> 0]
NoResp == [status |-> "none"]

VARIABLES
    pc,               \* position of the main thread (0) and of each handler
    hmsg,             \* what each handler received
    hresp,            \* the response a handler has built
    nsent,            \* responses a handler has written to its socket
    nreq,             \* requests a handler has dispatched
    closed,           \* the handler closed its client socket
    hproc,            \* the Popen object a stop_playback caller waits on
    nconn,            \* connections accepted so far
    running,          \* self.running
    server_socket,    \* self.server_socket: "None", "open", "closed"
    is_playing,       \* self.is_playing
    current_file,     \* self.current_file
    current_process,  \* self.current_process
    play_thread,      \* self.play_thread
    play_lock,        \* holder of self.play_lock (NoThread: free)
    tpc,              \* position of the playback thread of each connection
    targs,            \* the arguments of each playback thread (filename, playcount)
    tnum,             \* play_num of each playback thread
    nlaunch,          \* player processes each playback thread has launched
    alive,            \* the player processes running, <<thread, play_num>>
    stopped,          \* playback threads during whose sequence a request's Stop cleared is_playing
    interrupted,      \* playback threads during whose run stop_playback wrote anything
    failed,           \* playback threads one of whose Popen calls raised
    stop_answered     \* a STOP was answered and no PLAY has been received since

hvars == <<hmsg, hresp, nsent, nreq, closed, hproc>>
svars == <<nconn, running, server_socket>>
shared == <<is_playing, current_file, current_process, play_thread, play_lock>>
tvars == <<tpc, targs, tnum, nlaunch, alive>>
ghost == <<stopped, interrupted, failed, stop_answered>>
vars == <<pc, hmsg, hresp, nsent, nreq, closed, hproc, nconn, running,
          server_socket, is_playing, current_file, current_process,
          play_thread, play_lock, tpc, targs, tnum, nlaunch, alive,
          stopped, interrupted, failed, stop_answered>>

\* --------------------------------------------------- controller state
VARIABLES
    servers,              \* self.servers, the node registry
    filename_input,       \* text of the filename field, stripped
    volume_input,         \* value of the volume spin box
    playcount_input,      \* value of the play count spin box
    interval_input,       \* value of the interval spin box, minutes
    start_time_input,     \* start of the window, minute of the day
    end_time_input,       \* end of the window, minute of the day
    auto_play_checkbox,   \* the Enable Auto-Play box is checked
    is_auto_playing,      \* self.is_auto_playing
    last_auto_play_time,  \* self.last_auto_play_time, a clock value or NoTime
    auto_play_timer,      \* self.auto_play_timer: "None", "running", "stopped"
    countdown_timer,      \* self.countdown_timer: "None", "running", "stopped"
    now,                  \* datetime.now(), in ticks
    countdown_label,      \* what countdown_label shows
    fan,                  \* what keeps the GUI thread: a fan-out, a warning,
                          \* nothing (NoFanout), or that the application is closed
    state_file,           \* content of ~/.heartbeat_client_state.json
    checked,              \* the auto_play_check that ran last (or that the
                          \* state was just loaded), until the next event
    anchor                \* the event the next trigger is counted from

inputs == <<filename_input, volume_input, playcount_input, interval_input,
            start_time_input, end_time_input>>
sched == <<auto_play_checkbox, is_auto_playing, last_auto_play_time,
           auto_play_timer, countdown_timer>>
cvars == <<servers, filename_input, volume_input, playcount_input,
           interval_input, start_time_input, end_time_input,
           auto_play_checkbox, is_auto_playing, last_auto_play_time,
           auto_play_timer, countdown_timer, countdown_label, now, fan,
           state_file, checked, anchor>>

NoTime == -1                          \* last_auto_play_time is None
DefaultVolume == 75                   \* volume_input.setValue(75)
DefaultPort == 9915                   \* port_input.setValue(9915)
Filenames == {"", "a.mp3"}            \* texts of the filename field
DayTicks == DayMinutes * TicksPerMinute
NoRequest == [command |-> "none"]
NoFanout == [cmd |-> "none", request |-> NoRequest, idx |-> 0,
             inflight |-> FALSE, auto |-> FALSE, log |-> <<>>]
NoCheck == [at |-> NoTime, triggered |-> FALSE, request |-> NoRequest,
            sent |-> FALSE]
\* No event to count from: auto-play is off, or the interval was changed.
NoAnchor == [kind |-> "none", at |-> NoTime]
\* load_state ran last.
Loaded == [NoCheck EXCEPT !.request = [command |-> "load_state"]]
\* The "Invalid Interval" warning of toggle_auto_play is open.
IntervalWarning == [NoFanout EXCEPT !.cmd = "warning"]

\* The texts of countdown_label: "" (empty), "outside" (Outside time
\* window), "soon" (Playing soon...) and "next" (Next play in: ..m ..s),
\* the last with the remaining time it shows.
Label(text, remaining) ==
    [text |-> text, minutes |-> remaining \div TicksPerMinute,
     ticks |-> remaining % TicksPerMinute]
NoLabel == Label("", 0)

\* add_server: the record of a new node, the i-th of the registry.
NewServer(i) ==
    [name |-> "pi" \o ToString(i), hostname |-> "pi" \o ToString(i) \o ".local",
     port |-> DefaultPort,
     status |-> "Unknown", is_playing |-> FALSE, last_request |-> None]

\* Mutant of ToStringHHmm: only the hour is written.
ToStringHH(minute) ==
    <<(minute \div 60) \div 10, (minute \div 60) % 10, 0, 0>>

\* QTime.toString("HH:mm") of a minute of the day, as its four digits, and
\* QTime.fromString(text, "HH:mm"), NoTime for a text that is no time.
ToStringHHmm(minute) ==
    <<(minute \div 60) \div 10, (minute \div 60) % 10,
      (minute % 60) \div 10, (minute % 60) % 10>>
FromStringHHmm(text) ==
    LET hour == text[1] * 10 + text[2]
        minute == text[3] * 10 + text[4]
    IN  IF hour < 24 /\ minute < 60 THEN hour * 60 + minute ELSE NoTime

\* The state file: absent, cut short by a failed write, or the JSON object
\* of save_state (json.dump and json.load give back lists, objects,
\* strings, integers and booleans as they were).
NoFile == [kind |-> "none"]
TruncatedFile == [kind |-> "truncated"]
StateOf(registry, filename, volume, playcount, interval, start, end) ==
    [kind |-> "json", servers |-> registry, filename |-> filename,
     volume |-> volume, playcount |-> playcount, interval |-> interval,
     start_time |-> ToStringHHmm(start), end_time |-> ToStringHHmm(end)]

\* The application was closed; the state was written in full or not.
AppClosed(saved) ==
    [NoFanout EXCEPT !.cmd = IF saved THEN "closed" ELSE "closed unsaved"]

\* Registries load_state may read from the state file of an earlier session.
LoadedRegistries == {<<>>, <<NewServer(1)>>}

\* State after MusicNetworkController.__init__ with the registry of the
\* state file (empty when there is no file), the widgets at their defaults.
ControllerState(registry) ==
    /\ servers = registry
    /\ filename_input = ""
    /\ volume_input = DefaultVolume
    /\ playcount_input = 1
    /\ interval_input = 0
    /\ start_time_input = 0
    /\ end_time_input = DayMinutes - 1
    /\ auto_play_checkbox = FALSE
    /\ is_auto_playing = FALSE
    /\ last_auto_play_time = NoTime
    /\ auto_play_timer = None
    /\ countdown_timer = None
    /\ countdown_label = NoLabel
    /\ now = 0
    /\ fan = NoFanout
    /\ state_file = IF registry = <<>>
                    THEN NoFile
                    ELSE StateOf(registry, "", DefaultVolume, 1, 0, 0,
                                 DayMinutes - 1)
    /\ checked = NoCheck
    /\ anchor = NoAnchor

ControllerInit == ControllerState(<<>>)

\* State after HeartbeatServer.__init__.
NodeInit ==
    /\ pc = [c \in Callers |-> IF c = MainThread THEN "start" ELSE "idle"]
    /\ hmsg = [c \in Conn |-> NoData]
    /\ hresp = [c \in Conn |-> NoResp]
    /\ nsent = [c \in Conn |-> 0]
    /\ nreq = [c \in Conn |-> 0]
    /\ closed = [c \in Conn |-> FALSE]
    /\ hproc = [c \in Callers |-> NoProc]
    /\ nconn = 0
    /\ running = FALSE
    /\ server_socket = None
    /\ is_playing = FALSE
    /\ current_file = None
    /\ current_process = NoProc
    /\ play_thread = NoThread
    /\ play_lock = NoThread
    /\ tpc = [t \in Conn |-> "none"]
    /\ targs = [t \in Conn |-> NoData]
    /\ tnum = [t \in Conn |-> 0]
    /\ nlaunch = [t \in Conn |-> 0]
    /\ alive = {}
    /\ stopped = {}
    /\ interrupted = {}
    /\ failed = {}
    /\ stop_answered = FALSE

\* The node alone: the controller stays as constructed.
Init == NodeInit /\ ControllerInit

\* The interpreter is up: once main() returns, the daemon threads are gone.
ProcessUp == pc[MainThread] # "exited"

\* ------------------------------------------------------------ responses
\* handle_play's answers, handle_stop's, handle_ping's and handle_client's own.
PlayStarted(filename) ==
    [status |-> "OK", message |-> "Playback started",
     is_playing |-> TRUE, current_file |-> filename]
FileNotFound == [status |-> "ERROR", message |-> "File not found"]
PlaybackStopped ==
    [status |-> "OK", message |-> "Playback stopped",
     is_playing |-> FALSE, current_file |-> None]
UnknownCommand == [status |-> "ERROR", message |-> "Unknown command"]
InvalidJSON == [status |-> "ERROR", message |-> "Invalid JSON"]

\* ---------------------------------------------------------- main thread
\* start(): the socket is created, bound and listening; running = True.
StartOk ==
    /\ pc[MainThread] = "start"
    /\ server_socket' = "open"
    /\ running' = TRUE
    /\ pc' = [pc EXCEPT ![MainThread] = "accept"]
    /\ UNCHANGED <<hvars, nconn, shared, tvars, ghost>>
    /\ UNCHANGED cvars

\* start(): bind() raises; the except logs and the finally runs cleanup().
StartFail ==
    /\ pc[MainThread] = "start"
    /\ server_socket' = "open"
    /\ pc' = [pc EXCEPT ![MainThread] = "cleanup"]
    /\ UNCHANGED <<hvars, nconn, running, shared, tvars, ghost>>
    /\ UNCHANGED cvars

\* start(): accept() returns a connection; its handler thread is started.
Accept ==
    /\ pc[MainThread] = "accept"
    /\ running
    /\ nconn < MaxConn
    /\ nconn' = nconn + 1
    /\ pc' = [pc EXCEPT ![nconn + 1] = "recv"]
    /\ UNCHANGED <<hvars, running, server_socket, shared, tvars, ghost>>
    /\ UNCHANGED cvars

\* start(): accept() raises another exception than socket.timeout while
\* running: it is logged and the loop goes on (as after a timeout).
AcceptError ==
    /\ pc[MainThread] = "accept"
    /\ running
    /\ UNCHANGED vars
    /\ UNCHANGED cvars

\* start(): KeyboardInterrupt in the accept loop; the finally runs cleanup().
Interrupt ==
    /\ pc[MainThread] = "accept"
    /\ pc' = [pc EXCEPT ![MainThread] = "cleanup"]
    /\ UNCHANGED <<hvars, svars, shared, tvars, ghost>>
    /\ UNCHANGED cvars

\* cleanup(): running = False, then stop_playback().
Cleanup ==
    /\ pc[MainThread] = "cleanup"
    /\ running' = FALSE
    /\ pc' = [pc EXCEPT ![MainThread] = "sp_check"]
    /\ UNCHANGED <<hvars, nconn, server_socket, shared, tvars, ghost>>
    /\ UNCHANGED cvars

\* cleanup(): server_socket.close(); start() returns and main() ends.
CloseSocket ==
    /\ pc[MainThread] = "close_socket"
    /\ server_socket' = IF server_socket = None THEN None ELSE "closed"
    /\ pc' = [pc EXCEPT ![MainThread] = "exited"]
    /\ UNCHANGED <<hvars, nconn, running, shared, tvars, ghost>>
    /\ UNCHANGED cvars

\* ------------------------------------------------------- handle_client
\* Mutant of AfterSend: the handler keeps the connection and reads again.
AfterSendKeepAlive(h) == "recv"

\* What the handler does once its response is written: the finally closes
\* the socket and the thread ends.
AfterSend(h) == "done"

\* Mutant of Dispatch: handle_play stops the playback before it looks for
\* the file.
DispatchStopsFirst(d) ==
    CASE d.kind \in {"RECVERR", "BADUTF8", "NONOBJECT", "EMPTY"} -> "done"
      [] d.kind \in {"BADJSON", "UNKNOWN"} -> "send"
      [] d.kind = "PING" -> "ping1"
      [] d.kind \in {"STOP", "PLAY"} -> "sp_check"

\* The handler's position after decode and dispatch of the received data d:
\*   RECVERR    recv() raises                  -> except Exception, close
\*   BADUTF8    bytes that are not UTF-8       -> UnicodeDecodeError, the same
\*   EMPTY      b''                            -> return, close
\*   BADJSON    text json.loads rejects        -> the Invalid JSON answer
\*   NONOBJECT  JSON that is no object         -> request.get: AttributeError
\*   UNKNOWN    an object, command not known   -> the Unknown command answer
Dispatch(d) ==
    CASE d.kind \in {"RECVERR", "BADUTF8", "NONOBJECT", "EMPTY"} -> "done"
      [] d.kind \in {"BADJSON", "UNKNOWN"} -> "send"
      [] d.kind = "PING" -> "ping1"
      [] d.kind = "STOP" -> "sp_check"
      [] d.kind = "PLAY" ->
            IF d.filename \in ExistingFiles THEN "sp_check" ELSE "send"

\* The response known at dispatch.
DispatchResponse(d) ==
    CASE d.kind = "BADJSON" -> InvalidJSON
      [] d.kind = "UNKNOWN" -> UnknownCommand
      [] d.kind = "PLAY" /\ d.filename \notin ExistingFiles -> FileNotFound
      [] OTHER -> NoResp

\* The handler thread ends (finally: client_socket.close()): its locals go.
HandlerEnds(h) ==
    /\ closed' = [closed EXCEPT ![h] = TRUE]
    /\ hmsg' = [hmsg EXCEPT ![h] = NoData]
    /\ hresp' = [hresp EXCEPT ![h] = NoResp]
    /\ nreq' = [nreq EXCEPT ![h] = 0]

\* handle_client: `data = client_socket.recv(4096)` ; the peer's bytes arrive.
Recv(h) ==
    /\ ProcessUp
    /\ pc[h] = "recv"
    /\ \E d \in Data :
          /\ hmsg' = [hmsg EXCEPT ![h] = d]
          /\ stop_answered' = IF d.kind = "PLAY" THEN FALSE ELSE stop_answered
    /\ pc' = [pc EXCEPT ![h] = "decode"]
    /\ UNCHANGED <<hresp, nsent, nreq, closed, hproc, svars, shared, tvars,
                   stopped, interrupted, failed>>
    /\ UNCHANGED cvars

\* handle_client: decode('utf-8'), json.loads, request.get('command') and
\* the dispatch on the command; for PLAY, handle_play up to stop_playback.
Decode(h) ==
    /\ ProcessUp
    /\ pc[h] = "decode"
    /\ pc' = [pc EXCEPT ![h] = Dispatch(hmsg[h])]
    /\ IF Dispatch(hmsg[h]) = "done"
       THEN HandlerEnds(h)
       ELSE /\ hresp' = [hresp EXCEPT ![h] = DispatchResponse(hmsg[h])]
            /\ nreq' = [nreq EXCEPT ![h] =
                          IF hmsg[h].kind \in {"PLAY", "STOP", "PING", "UNKNOWN"}
                          THEN @ + 1 ELSE @]
            /\ UNCHANGED <<hmsg, closed>>
    /\ UNCHANGED <<nsent, hproc, svars, shared, tvars, ghost>>
    /\ UNCHANGED cvars

\* handle_ping: the dict literal reads self.is_playing ...
Ping1(h) ==
    /\ ProcessUp
    /\ pc[h] = "ping1"
    /\ hresp' = [hresp EXCEPT ![h] = [status |-> "OK", is_playing |-> is_playing]]
    /\ pc' = [pc EXCEPT ![h] = "ping2"]
    /\ UNCHANGED <<hmsg, nsent, nreq, closed, hproc, svars, shared, tvars, ghost>>
    /\ UNCHANGED cvars

\* Mutant of Ping2: the status query resets current_file.
Ping2Resets(h) ==
    /\ ProcessUp
    /\ pc[h] = "ping2"
    /\ hresp' = [hresp EXCEPT ![h] =
                   [status |-> "OK", is_playing |-> hresp[h].is_playing,
                    current_file |-> current_file, hostname |-> "node"]]
    /\ current_file' = None
    /\ pc' = [pc EXCEPT ![h] = "send"]
    /\ UNCHANGED <<hmsg, nsent, nreq, closed, hproc, svars, is_playing,
                   current_process, play_thread, play_lock, tvars, ghost>>
    /\ UNCHANGED cvars

\* ... then self.current_file and the hostname.
Ping2(h) ==
    /\ ProcessUp
    /\ pc[h] = "ping2"
    /\ hresp' = [hresp EXCEPT ![h] =
                   [status |-> "OK", is_playing |-> hresp[h].is_playing,
                    current_file |-> current_file, hostname |-> "node"]]
    /\ pc' = [pc EXCEPT ![h] = "send"]
    /\ UNCHANGED <<hmsg, nsent, nreq, closed, hproc, svars, shared, tvars, ghost>>
    /\ UNCHANGED cvars

\* handle_play after stop_playback: the new thread is stored in play_thread
\* and started; the answer is built.
HandlePlayThread(h) ==
    /\ ProcessUp
    /\ pc[h] = "hp_thread"
    /\ play_thread' = h
    /\ tpc' = [tpc EXCEPT ![h] = "lock"]
    /\ targs' = [targs EXCEPT ![h] = hmsg[h]]
    /\ hresp' = [hresp EXCEPT ![h] = PlayStarted(hmsg[h].filename)]
    /\ pc' = [pc EXCEPT ![h] = "send"]
    /\ UNCHANGED <<hmsg, nsent, nreq, closed, hproc, svars, is_playing,
                   current_file, current_process, play_lock, tnum, nlaunch,
                   alive, ghost>>
    /\ UNCHANGED cvars

\* handle_client: sendall(response), then the finally closes the socket.
Send(h) ==
    /\ ProcessUp
    /\ pc[h] = "send"
    /\ nsent' = [nsent EXCEPT ![h] = @ + 1]
    /\ pc' = [pc EXCEPT ![h] = AfterSend(h)]
    /\ IF AfterSend(h) = "done" THEN HandlerEnds(h)
       ELSE UNCHANGED <<hmsg, hresp, nreq, closed>>
    /\ stop_answered' = (stop_answered \/ hmsg[h].kind = "STOP")
    /\ UNCHANGED <<hproc, svars, shared, tvars, stopped, interrupted, failed>>
    /\ UNCHANGED cvars

\* ------------------------------------------------------- stop_playback
\* The playback thread inside `with self.play_lock`, if any.
Holder == IF play_lock = NoThread THEN {} ELSE {play_lock}

\* The positions of play_audio between `self.is_playing = True` and the
\* outer finally: the repetition sequence is in progress.
SequencePcs == {"set_file", "loop", "popen", "while", "poll", "term1", "term2",
                "term3", "wait0", "wait", "exc", "kill", "infin"}
InSequence == {t \in Holder : tpc[t] \in SequencePcs}

\* Where the caller of stop_playback goes on when it returns: cleanup()
\* closes the socket, handle_play starts the thread, handle_stop answers.
AfterStop(c) ==
    IF c = MainThread THEN "close_socket"
    ELSE IF hmsg[c].kind = "PLAY" THEN "hp_thread" ELSE "send"

\* stop_playback returns to its caller c.
StopReturns(c) ==
    /\ pc' = [pc EXCEPT ![c] = AfterStop(c)]
    /\ hresp' = IF c # MainThread /\ hmsg[c].kind = "STOP"
                THEN [hresp EXCEPT ![c] = PlaybackStopped] ELSE hresp
    /\ UNCHANGED <<hmsg, nreq, closed>>

\* An exception leaves stop_playback: a handler logs it and closes without
\* answering; in cleanup() it leaves start(), and main() logs it and ends.
StopRaises(c) ==
    /\ pc' = [pc EXCEPT ![c] = IF c = MainThread THEN "exited" ELSE "done"]
    /\ IF c = MainThread THEN UNCHANGED <<hmsg, hresp, nreq, closed>>
       ELSE HandlerEnds(c)

\* The caller moves on inside stop_playback.
StopGoes(c, to) ==
    /\ pc' = [pc EXCEPT ![c] = to]
    /\ UNCHANGED <<hmsg, hresp, nreq, closed>>

\* Mutant of StopCheck: the body runs whether or not anything is playing.
StopCheckAlways(c) ==
    /\ ProcessUp
    /\ pc[c] = "sp_check"
    /\ StopGoes(c, "sp_clear")
    /\ UNCHANGED <<nsent, hproc, svars, shared, tvars, ghost>>
    /\ UNCHANGED cvars

\* `if self.is_playing:` ; not playing: return at once.
StopCheck(c) ==
    /\ ProcessUp
    /\ pc[c] = "sp_check"
    /\ IF is_playing THEN StopGoes(c, "sp_clear") ELSE StopReturns(c)
    /\ UNCHANGED <<nsent, hproc, svars, shared, tvars, ghost>>
    /\ UNCHANGED cvars

\* `self.is_playing = False`
StopClear(c) ==
    /\ ProcessUp
    /\ pc[c] = "sp_clear"
    /\ is_playing' = FALSE
    /\ stopped' = IF c = MainThread THEN stopped ELSE stopped \cup InSequence
    /\ interrupted' = interrupted \cup Holder
    /\ StopGoes(c, "sp_proc1")
    /\ UNCHANGED <<nsent, hproc, svars, current_file, current_process,
                   play_thread, play_lock, tvars, failed>>
    /\ UNCHANGED stop_answered
    /\ UNCHANGED cvars

\* `if self.current_process and ...`
StopProc1(c) ==
    /\ ProcessUp
    /\ pc[c] = "sp_proc1"
    /\ StopGoes(c, IF current_process = NoProc THEN "sp_join" ELSE "sp_proc2")
    /\ UNCHANGED <<nsent, hproc, svars, shared, tvars, ghost>>
    /\ UNCHANGED cvars

\* `... self.current_process.poll() is None:` ; the attribute is read again,
\* outside the try: on None the AttributeError leaves stop_playback.
StopProc2(c) ==
    /\ ProcessUp
    /\ pc[c] = "sp_proc2"
    /\ IF current_process = NoProc THEN StopRaises(c)
       ELSE StopGoes(c, IF current_process \in alive THEN "sp_term" ELSE "sp_join")
    /\ UNCHANGED <<nsent, hproc, svars, shared, tvars, ghost>>
    /\ UNCHANGED cvars

\* `self.current_process.terminate()` ; on None the except logs.  SIGTERM
\* asks the player to exit: it exits when ProcExit fires.
StopTerm(c) ==
    /\ ProcessUp
    /\ pc[c] = "sp_term"
    /\ StopGoes(c, IF current_process = NoProc THEN "sp_join" ELSE "sp_wait0")
    /\ UNCHANGED <<nsent, hproc, svars, shared, tvars, ghost>>
    /\ UNCHANGED cvars

\* `self.current_process.wait(timeout=2)` ; the attribute is read and the
\* caller blocks on that Popen object.
StopWait0(c) ==
    /\ ProcessUp
    /\ pc[c] = "sp_wait0"
    /\ StopGoes(c, IF current_process = NoProc THEN "sp_join" ELSE "sp_wait")
    /\ hproc' = [hproc EXCEPT ![c] = current_process]
    /\ UNCHANGED <<nsent, svars, shared, tvars, ghost>>
    /\ UNCHANGED cvars

\* wait(timeout=2) ends: the process has exited, or TimeoutExpired.
StopWait(c) ==
    /\ ProcessUp
    /\ pc[c] = "sp_wait"
    /\ StopGoes(c, IF hproc[c] \in alive THEN "sp_kill" ELSE "sp_join")
    /\ hproc' = [hproc EXCEPT ![c] = NoProc]
    /\ UNCHANGED <<nsent, svars, shared, tvars, ghost>>
    /\ UNCHANGED cvars

\* `except subprocess.TimeoutExpired: self.current_process.kill()` ; on None
\* the AttributeError is raised inside the handler and leaves stop_playback.
StopKill(c) ==
    /\ ProcessUp
    /\ pc[c] = "sp_kill"
    /\ IF current_process = NoProc
       THEN StopRaises(c) /\ UNCHANGED alive
       ELSE StopGoes(c, "sp_join") /\ alive' = alive \ {current_process}
    /\ UNCHANGED <<nsent, hproc, svars, shared, tpc, targs, tnum, nlaunch, ghost>>
    /\ UNCHANGED cvars

\* `if self.play_thread and self.play_thread.is_alive():
\*      self.play_thread.join(timeout=2.0)` ; the join ends when the thread
\* has ended or by timeout.
StopJoin(c) ==
    /\ ProcessUp
    /\ pc[c] = "sp_join"
    /\ StopGoes(c, "sp_file")
    /\ UNCHANGED <<nsent, hproc, svars, shared, tvars, ghost>>
    /\ UNCHANGED cvars

\* `self.current_file = None`
StopFile(c) ==
    /\ ProcessUp
    /\ pc[c] = "sp_file"
    /\ current_file' = None
    /\ interrupted' = interrupted \cup Holder
    /\ StopGoes(c, "sp_handle")
    /\ UNCHANGED <<nsent, hproc, svars, is_playing, current_process,
                   play_thread, play_lock, tvars, stopped, failed>>
    /\ UNCHANGED stop_answered
    /\ UNCHANGED cvars

\* `self.current_process = None` ; and stop_playback returns.
StopHandle(c) ==
    /\ ProcessUp
    /\ pc[c] = "sp_handle"
    /\ current_process' = NoProc
    /\ interrupted' = interrupted \cup Holder
    /\ StopReturns(c)
    /\ UNCHANGED <<nsent, hproc, svars, is_playing, current_file,
                   play_thread, play_lock, tvars, stopped, failed>>
    /\ UNCHANGED stop_answered
    /\ UNCHANGED cvars

\* ---------------------------------------------------------- play_audio
\* The thread moves on; no handler and no socket is touched.
PlayGoes(t, to) ==
    /\ tpc' = [tpc EXCEPT ![t] = to]
    /\ UNCHANGED <<pc, hvars, svars, targs>>

\* `with self.play_lock:` ; blocks while another playback thread holds it.
PlayAcquire(t) ==
    /\ ProcessUp
    /\ tpc[t] = "lock"
    /\ play_lock = NoThread
    /\ play_lock' = t
    /\ PlayGoes(t, "set_playing")
    /\ UNCHANGED <<is_playing, current_file, current_process, play_thread,
                   tnum, nlaunch, alive, ghost>>
    /\ UNCHANGED cvars

\* `self.is_playing = True`
PlaySetPlaying(t) ==
    /\ ProcessUp
    /\ tpc[t] = "set_playing"
    /\ is_playing' = TRUE
    /\ PlayGoes(t, "set_file")
    /\ UNCHANGED <<current_file, current_process, play_thread, play_lock,
                   tnum, nlaunch, alive, ghost>>
    /\ UNCHANGED cvars

\* `self.current_file = Path(file_path).name`
PlaySetFile(t) ==
    /\ ProcessUp
    /\ tpc[t] = "set_file"
    /\ current_file' = targs[t].filename
    /\ PlayGoes(t, "loop")
    /\ UNCHANGED <<is_playing, current_process, play_thread, play_lock,
                   tnum, nlaunch, alive, ghost>>
    /\ UNCHANGED cvars

\* Mutant of Repeats: one repetition too many.
RepeatsOnceMore(t) == tnum[t] <= targs[t].playcount

\* Mutant of Repeats: a failed launch ends the loop.
RepeatsUnlessFailed(t) == tnum[t] < targs[t].playcount /\ t \notin failed

\* `for play_num in range(playcount)` has a next play_num.
Repeats(t) == tnum[t] < targs[t].playcount

\* `for play_num in range(playcount): if not self.is_playing: break`
PlayLoop(t) ==
    /\ ProcessUp
    /\ tpc[t] = "loop"
    /\ PlayGoes(t, IF Repeats(t) /\ is_playing THEN "popen" ELSE "fin1")
    /\ UNCHANGED <<shared, tnum, nlaunch, alive, ghost>>
    /\ UNCHANGED cvars

\* `self.current_process = subprocess.Popen(cmd, ...)` ; the player starts,
\* or Popen raises and the except of the repetition takes over.
PlayPopen(t) ==
    /\ ProcessUp
    /\ tpc[t] = "popen"
    /\ \/ /\ nlaunch' = [nlaunch EXCEPT ![t] = @ + 1]
          /\ alive' = alive \cup {<<t, tnum[t]>>}
          /\ current_process' = <<t, tnum[t]>>
          /\ PlayGoes(t, "while")
          /\ UNCHANGED failed
       \/ /\ failed' = failed \cup {t}
          /\ PlayGoes(t, "exc")
          /\ UNCHANGED <<nlaunch, alive, current_process>>
    /\ UNCHANGED <<is_playing, current_file, play_thread, play_lock, tnum,
                   stopped, interrupted>>
    /\ UNCHANGED stop_answered
    /\ UNCHANGED cvars

\* `while self.is_playing:`
PlayWhile(t) ==
    /\ ProcessUp
    /\ tpc[t] = "while"
    /\ PlayGoes(t, IF is_playing THEN "poll" ELSE "term1")
    /\ UNCHANGED <<shared, tnum, nlaunch, alive, ghost>>
    /\ UNCHANGED cvars

\* `return_code = self.current_process.poll()` ; finished: break, else
\* sleep(0.1) and test is_playing again.  On None: AttributeError.
PlayPoll(t) ==
    /\ ProcessUp
    /\ tpc[t] = "poll"
    /\ PlayGoes(t, IF current_process = NoProc THEN "exc"
                   ELSE IF current_process \in alive THEN "while" ELSE "term1")
    /\ UNCHANGED <<shared, tnum, nlaunch, alive, ghost>>
    /\ UNCHANGED cvars

\* `if self.current_process and ...`
PlayTerm1(t) ==
    /\ ProcessUp
    /\ tpc[t] = "term1"
    /\ PlayGoes(t, IF current_process = NoProc THEN "infin" ELSE "term2")
    /\ UNCHANGED <<shared, tnum, nlaunch, alive, ghost>>
    /\ UNCHANGED cvars

\* `... self.current_process.poll() is None:`
PlayTerm2(t) ==
    /\ ProcessUp
    /\ tpc[t] = "term2"
    /\ PlayGoes(t, IF current_process = NoProc THEN "exc"
                   ELSE IF current_process \in alive THEN "term3" ELSE "infin")
    /\ UNCHANGED <<shared, tnum, nlaunch, alive, ghost>>
    /\ UNCHANGED cvars

\* `self.current_process.terminate()`
PlayTerm3(t) ==
    /\ ProcessUp
    /\ tpc[t] = "term3"
    /\ PlayGoes(t, IF current_process = NoProc THEN "exc" ELSE "wait0")
    /\ UNCHANGED <<shared, tnum, nlaunch, alive, ghost>>
    /\ UNCHANGED cvars

\* `self.current_process.wait(timeout=2)` ; the attribute is read (it is
\* this thread's own process or None) and the thread blocks on it.
PlayWait0(t) ==
    /\ ProcessUp
    /\ tpc[t] = "wait0"
    /\ PlayGoes(t, IF current_process = NoProc THEN "exc" ELSE "wait")
    /\ UNCHANGED <<shared, tnum, nlaunch, alive, ghost>>
    /\ UNCHANGED cvars

\* wait(timeout=2) ends: the process has exited, or TimeoutExpired.
PlayWait(t) ==
    /\ ProcessUp
    /\ tpc[t] = "wait"
    /\ PlayGoes(t, IF <<t, tnum[t]>> \in alive THEN "exc" ELSE "infin")
    /\ UNCHANGED <<shared, tnum, nlaunch, alive, ghost>>
    /\ UNCHANGED cvars

\* `except Exception as e: ... if self.current_process:`
PlayExc(t) ==
    /\ ProcessUp
    /\ tpc[t] = "exc"
    /\ PlayGoes(t, IF current_process = NoProc THEN "infin" ELSE "kill")
    /\ UNCHANGED <<shared, tnum, nlaunch, alive, ghost>>
    /\ UNCHANGED cvars

\* `try: self.current_process.kill()  except: pass`
PlayKill(t) ==
    /\ ProcessUp
    /\ tpc[t] = "kill"
    /\ alive' = alive \ {current_process}
    /\ PlayGoes(t, "infin")
    /\ UNCHANGED <<shared, tnum, nlaunch, ghost>>
    /\ UNCHANGED cvars

\* The position after one repetition: the pause (sleep(0.5) when another
\* repetition follows and is_playing) and the next turn of the for loop.
AfterRepetition(t) == "loop"

\* `finally: self.current_process = None` of the repetition.
PlayInFin(t) ==
    /\ ProcessUp
    /\ tpc[t] = "infin"
    /\ current_process' = NoProc
    /\ tnum' = [tnum EXCEPT ![t] = @ + 1]
    /\ PlayGoes(t, AfterRepetition(t))
    /\ UNCHANGED <<is_playing, current_file, play_thread, play_lock, nlaunch,
                   alive, ghost>>
    /\ UNCHANGED cvars

\* outer `finally: self.is_playing = False`
PlayFin1(t) ==
    /\ ProcessUp
    /\ tpc[t] = "fin1"
    /\ is_playing' = FALSE
    /\ PlayGoes(t, "fin2")
    /\ UNCHANGED <<current_file, current_process, play_thread, play_lock,
                   tnum, nlaunch, alive, ghost>>
    /\ UNCHANGED cvars

\* `self.current_file = None`
PlayFin2(t) ==
    /\ ProcessUp
    /\ tpc[t] = "fin2"
    /\ current_file' = None
    /\ PlayGoes(t, "fin3")
    /\ UNCHANGED <<is_playing, current_process, play_thread, play_lock,
                   tnum, nlaunch, alive, ghost>>
    /\ UNCHANGED cvars

\* Mutant of PlayFin3: the thread ends without releasing the lock.
PlayFin3KeepsLock(t) ==
    /\ ProcessUp
    /\ tpc[t] = "fin3"
    /\ current_process' = NoProc
    /\ tpc' = [tpc EXCEPT ![t] = "done"]
    /\ targs' = [targs EXCEPT ![t] = NoData]
    /\ tnum' = [tnum EXCEPT ![t] = 0]
    /\ nlaunch' = [nlaunch EXCEPT ![t] = 0]
    /\ stopped' = stopped \ {t}
    /\ interrupted' = interrupted \ {t}
    /\ failed' = failed \ {t}
    /\ UNCHANGED <<pc, hvars, svars, is_playing, current_file, play_thread,
                   play_lock, alive>>
    /\ UNCHANGED stop_answered
    /\ UNCHANGED cvars

\* `self.current_process = None` ; the with block ends: the lock is
\* released and the thread ends (its locals and its record go).
PlayFin3(t) ==
    /\ ProcessUp
    /\ tpc[t] = "fin3"
    /\ current_process' = NoProc
    /\ play_lock' = NoThread
    /\ tpc' = [tpc EXCEPT ![t] = "done"]
    /\ targs' = [targs EXCEPT ![t] = NoData]
    /\ tnum' = [tnum EXCEPT ![t] = 0]
    /\ nlaunch' = [nlaunch EXCEPT ![t] = 0]
    /\ stopped' = stopped \ {t}
    /\ interrupted' = interrupted \ {t}
    /\ failed' = failed \ {t}
    /\ UNCHANGED <<pc, hvars, svars, is_playing, current_file, play_thread, alive>>
    /\ UNCHANGED stop_answered
    /\ UNCHANGED cvars

\* ------------------------------------------------------ player process
\* A player process exits: the file has been played, or SIGTERM took effect.
ProcExit(p) ==
    /\ p \in alive
    /\ alive' = alive \ {p}
    /\ UNCHANGED <<pc, hvars, svars, shared, tpc, targs, tnum, nlaunch, ghost>>
    /\ UNCHANGED cvars

\* ------------------------------------------------------- specification
Next ==
    \/ StartOk \/ StartFail \/ Accept \/ AcceptError \/ Interrupt \/ Cleanup
    \/ CloseSocket
    \/ \E h \in Conn :
        \/ Recv(h) \/ Decode(h) \/ Ping1(h) \/ Ping2(h)
        \/ HandlePlayThread(h) \/ Send(h)
    \/ \E c \in Callers :
        \/ StopCheck(c) \/ StopClear(c) \/ StopProc1(c) \/ StopProc2(c)
        \/ StopTerm(c) \/ StopWait0(c) \/ StopWait(c) \/ StopKill(c)
        \/ StopJoin(c) \/ StopFile(c) \/ StopHandle(c)
    \/ \E t \in Conn :
        \/ PlayAcquire(t) \/ PlaySetPlaying(t) \/ PlaySetFile(t) \/ PlayLoop(t)
        \/ PlayPopen(t) \/ PlayWhile(t) \/ PlayPoll(t) \/ PlayTerm1(t)
        \/ PlayTerm2(t) \/ PlayTerm3(t) \/ PlayWait0(t) \/ PlayWait(t)
        \/ PlayExc(t) \/ PlayKill(t) \/ PlayInFin(t) \/ PlayFin1(t)
        \/ PlayFin2(t) \/ PlayFin3(t)
    \/ \E p \in alive : ProcExit(p)

Spec == Init /\ [][Next]_vars

\* The steps of one thread of the node: the handler of a connection (the
\* stop_playback of a STOP or a PLAY included) and a playback thread.  What
\* a handler waits for (the peer's bytes) is not a step of the thread.
StopStep(c) ==
    \/ StopCheck(c) \/ StopClear(c) \/ StopProc1(c) \/ StopProc2(c)
    \/ StopTerm(c) \/ StopWait0(c) \/ StopWait(c) \/ StopKill(c)
    \/ StopJoin(c) \/ StopFile(c) \/ StopHandle(c)
HandlerStep(h) ==
    \/ Decode(h) \/ Ping1(h) \/ Ping2(h) \/ HandlePlayThread(h) \/ Send(h)
    \/ StopStep(h)
PlayStep(t) ==
    \/ PlayAcquire(t) \/ PlaySetPlaying(t) \/ PlaySetFile(t) \/ PlayLoop(t)
    \/ PlayPopen(t) \/ PlayWhile(t) \/ PlayPoll(t) \/ PlayTerm1(t)
    \/ PlayTerm2(t) \/ PlayTerm3(t) \/ PlayWait0(t) \/ PlayWait(t)
    \/ PlayExc(t) \/ PlayKill(t) \/ PlayInFin(t) \/ PlayFin1(t)
    \/ PlayFin2(t) \/ PlayFin3(t)

\* The player processes a run can have: one for each repetition of each
\* playback thread.
Procs == Conn \X (0..(MaxPlaycount - 1))

\* The node while it serves: start() has bound the socket and stays in its
\* accept loop, no KeyboardInterrupt ends it.
ServingNext ==
    \/ StartOk \/ Accept \/ AcceptError
    \/ \E h \in Conn : Recv(h) \/ HandlerStep(h)
    \/ \E t \in Conn : PlayStep(t)
    \/ \E p \in alive : ProcExit(p)

\* A scheduler that lets every thread that can take a step take one, and
\* player processes that all exit.
Fairness ==
    /\ \A h \in Conn : WF_vars(HandlerStep(h))
    /\ \A t \in Conn : WF_vars(PlayStep(t))
    /\ \A p \in Procs : WF_vars(ProcExit(p))
SpecServing == Init /\ [][ServingNext]_vars /\ Fairness

\* ============================================================ controller
\* The GUI thread is in the event loop, between two callbacks.
Idle == fan = NoFanout
\* The GUI thread is in the loop over the nodes of a fan-out.
InFanout == fan.cmd \in {"PLAY", "STOP", "PING"}

\* save_state: what the state file holds afterwards, the registry being as
\* given: the state, or with a failed write (logged, lines 630-632) what it
\* held before or a part of the text.
Written(registry) ==
    StateOf(registry, filename_input, volume_input, playcount_input,
            interval_input, start_time_input, end_time_input)
SaveState(registry) == {Written(registry), state_file, TruncatedFile}

\* add_server: the dialog was accepted with a name and a hostname; the
\* state is saved.
AddServer ==
    /\ Idle
    /\ Len(servers) < MaxServers
    /\ servers' = Append(servers, NewServer(Len(servers) + 1))
    /\ state_file' \in SaveState(servers')
    /\ checked' = NoCheck
    /\ UNCHANGED <<inputs, sched, now, fan,
                   countdown_label, anchor, vars>>

\* The user edits the filename field.
SetFilename(f) ==
    /\ Idle
    /\ filename_input' = f
    /\ checked' = NoCheck
    /\ UNCHANGED <<servers, volume_input, playcount_input, interval_input,
                   start_time_input, end_time_input, sched, now, fan,
                   countdown_label, anchor, state_file,
                   vars>>

\* The user edits the volume spin box.
SetVolume(v) ==
    /\ Idle
    /\ volume_input' = v
    /\ checked' = NoCheck
    /\ UNCHANGED <<servers, filename_input, playcount_input, interval_input,
                   start_time_input, end_time_input, sched, now, fan,
                   countdown_label, anchor, state_file, vars>>

\* The user edits the play count spin box.
SetPlaycount(n) ==
    /\ Idle
    /\ playcount_input' = n
    /\ checked' = NoCheck
    /\ UNCHANGED <<servers, filename_input, volume_input, interval_input,
                   start_time_input, end_time_input, sched, now, fan,
                   countdown_label, anchor, state_file,
                   vars>>

\* The user edits the interval spin box.
SetInterval(m) ==
    /\ Idle
    /\ interval_input' = m
    /\ checked' = NoCheck
    /\ anchor' = IF m = interval_input THEN anchor ELSE NoAnchor
    /\ UNCHANGED <<servers, filename_input, volume_input, playcount_input,
                   start_time_input, end_time_input, sched, now, fan,
                   countdown_label, state_file,
                   vars>>

\* The user edits the start and end time fields.
SetWindow(s, e) ==
    /\ Idle
    /\ start_time_input' = s
    /\ end_time_input' = e
    /\ checked' = NoCheck
    /\ UNCHANGED <<servers, filename_input, volume_input, playcount_input,
                   interval_input, sched, now, fan,
                   countdown_label, anchor, state_file,
                   vars>>

\* The clock moves while the GUI thread is idle or waits for the network.
Tick ==
    /\ Idle \/ fan.inflight \/ fan = IntervalWarning
    /\ now < MaxTime
    /\ now' = now + 1
    /\ checked' = IF Idle THEN NoCheck ELSE checked
    /\ UNCHANGED <<servers, inputs, sched, fan,
                   countdown_label, anchor, state_file,
                   vars>>

\* ---------------------------------------------------------------- fan-out
\* The requests play_audio, stop_audio and ping_servers build.
PlayRequest ==
    [command |-> "PLAY", filename |-> filename_input,
     volume |-> volume_input, playcount |-> playcount_input]
StopRequest == [command |-> "STOP"]
PingRequest == [command |-> "PING"]

\* `for server in self.servers: self.send_command(server, request, name)`
\* about to start.
StartFanout(name, request, auto) ==
    [cmd |-> name, request |-> request, idx |-> 1, inflight |-> FALSE,
     auto |-> auto, log |-> <<>>]

\* play_audio returns early, with a warning, without a filename or a node.
PlayRefused == filename_input = "" \/ servers = <<>>

\* play_audio, the Play button: up to the first send_command.
PlayAudio ==
    /\ Idle
    /\ fan' = IF PlayRefused THEN fan ELSE StartFanout("PLAY", PlayRequest, FALSE)
    /\ checked' = NoCheck
    /\ anchor' = IF is_auto_playing /\ ~PlayRefused
                 THEN [kind |-> "play", at |-> now] ELSE anchor
    /\ UNCHANGED <<servers, inputs, sched, now,
                   countdown_label, state_file,
                   vars>>

\* stop_audio, the Stop button: up to the first send_command.
StopAudio ==
    /\ Idle
    /\ fan' = IF servers = <<>> THEN fan ELSE StartFanout("STOP", StopRequest, FALSE)
    /\ checked' = NoCheck
    /\ UNCHANGED <<servers, inputs, sched, now,
                   countdown_label, anchor, state_file,
                   vars>>

\* ping_servers, the ping timer's callback: up to the first send_command.
PingServers ==
    /\ Idle
    /\ fan' = IF servers = <<>> THEN fan ELSE StartFanout("PING", PingRequest, FALSE)
    /\ checked' = NoCheck
    /\ UNCHANGED <<servers, inputs, sched, now,
                   countdown_label, anchor, state_file,
                   vars>>

\* What a node of this repository answers to a request.
NodeResponses(request) ==
    CASE request.command = "PLAY" -> {PlayStarted(request.filename), FileNotFound}
      [] request.command = "STOP" -> {PlaybackStopped}
      [] request.command = "PING" ->
            {[status |-> "OK", is_playing |-> b, current_file |-> f,
              hostname |-> "node"] :
                 b \in BOOLEAN, f \in {None} \cup ExistingFiles}
      [] OTHER -> {UnknownCommand}

\* An object that carries neither a status nor an is_playing field.
BareObject == [message |-> "bare"]

\* The ways an exchange ends without a decoded response object.
FailureKinds == {"timeout", "refused", "empty", "malformed", "nonobject",
                 "badutf8", "ioerror"}

\* How one exchange may end.
Outcomes(request) ==
    [kind : FailureKinds, response : {NoResp}]
        \cup [kind : {"response"},
              response : NodeResponses(request) \cup {BareObject}]

\* Mutant of FailureStatus: every failure is recorded as Error.
FailureStatusAllError(kind) == "Error"

\* The except clauses of send_command, in their order.
FailureStatus(kind) ==
    CASE kind = "timeout" -> "Timeout"
      [] kind = "refused" -> "Refused"
      [] OTHER -> "Error"

\* response.get('status', 'ERROR') and response.get('is_playing', False).
GetStatus(response) ==
    IF "status" \in DOMAIN response THEN response.status ELSE "ERROR"
\* Mutant of GetIsPlaying: a response without the field counts as playing.
GetIsPlayingOrTrue(response) ==
    IF "is_playing" \in DOMAIN response THEN response.is_playing ELSE TRUE
GetIsPlaying(response) ==
    IF "is_playing" \in DOMAIN response THEN response.is_playing ELSE FALSE

\* Mutant of Recorded: a failed exchange also clears the playing flag.
RecordedFailureNotPlaying(server, outcome, name) ==
    IF outcome.kind = "response"
    THEN [server EXCEPT !.status = GetStatus(outcome.response),
                        !.is_playing = GetIsPlaying(outcome.response),
                        !.last_request = name]
    ELSE [server EXCEPT !.status = FailureStatus(outcome.kind),
                        !.is_playing = FALSE,
                        !.last_request = name]

\* Mutant of Recorded: a failed exchange leaves the record as it was.
RecordedOnResponseOnly(server, outcome, name) ==
    IF outcome.kind = "response"
    THEN [server EXCEPT !.status = GetStatus(outcome.response),
                        !.is_playing = GetIsPlaying(outcome.response),
                        !.last_request = name]
    ELSE server

\* What send_command writes into the node's record.
Recorded(server, outcome, name) ==
    IF outcome.kind = "response"
    THEN [server EXCEPT !.status = GetStatus(outcome.response),
                        !.is_playing = GetIsPlaying(outcome.response),
                        !.last_request = name]
    ELSE [server EXCEPT !.status = FailureStatus(outcome.kind),
                        !.last_request = name]

\* send_command for the i-th node: the socket is created, connects, sends.
SendCommandStart(i) ==
    /\ InFanout
    /\ ~fan.inflight
    /\ fan.idx = i
    /\ i <= Len(servers)
    /\ fan' = [fan EXCEPT !.inflight = TRUE]
    /\ UNCHANGED <<servers, inputs, sched, now, checked,
                   countdown_label, anchor, state_file,
                   vars>>

\* Mutant of AfterExchange: a failed exchange ends the loop.
AbortsOnFailure(i, outcome) ==
    IF outcome.kind = "response" THEN i + 1 ELSE MaxServers + 1

\* The node the loop goes to after the i-th.
AfterExchange(i, outcome) == i + 1

\* send_command for the i-th node: the exchange ends, the record is updated.
SendCommandEnd(i) ==
    /\ fan.inflight
    /\ fan.idx = i
    /\ \E outcome \in Outcomes(fan.request) :
          /\ servers' = [servers EXCEPT ![i] = Recorded(@, outcome, fan.cmd)]
          /\ fan' = [fan EXCEPT !.inflight = FALSE,
                                !.idx = AfterExchange(i, outcome),
                                !.log = Append(@, outcome)]
    /\ UNCHANGED <<inputs, sched, now, checked,
                   countdown_label, anchor, state_file,
                   vars>>

\* datetime.now().time(), QTime.toPyTime(): times of day in ticks.
TimeOfDay(t) == t % DayTicks
ToPyTime(minute) == minute * TicksPerMinute

\* Mutant of InWindow: the start of the window is not looked at.
InWindowNoStart(t) == TimeOfDay(t) <= ToPyTime(end_time_input)

\* Mutant of InWindow: a window that ends before it starts wraps past
\* midnight.
InWindowWrapping(t) ==
    IF start_time_input <= end_time_input
    THEN /\ ToPyTime(start_time_input) <= TimeOfDay(t)
         /\ TimeOfDay(t) <= ToPyTime(end_time_input)
    ELSE \/ ToPyTime(start_time_input) <= TimeOfDay(t)
         \/ TimeOfDay(t) <= ToPyTime(end_time_input)

\* `start_time <= current_time <= end_time`
InWindow(t) ==
    /\ ToPyTime(start_time_input) <= TimeOfDay(t)
    /\ TimeOfDay(t) <= ToPyTime(end_time_input)

\* update_countdown: the text it puts into countdown_label at time t, with
\* is_auto_playing and last_auto_play_time as given.
CountdownText(playing, last, t) ==
    IF ~playing \/ last = NoTime THEN NoLabel
    ELSE IF ~InWindow(t) THEN Label("outside", 0)
    ELSE LET remaining == interval_input * TicksPerMinute - (t - last) IN
         IF remaining <= 0 THEN Label("soon", 0)
                           ELSE Label("next", remaining)

\* Mutant of PlayAudioEnd: the timestamp is left alone.
PlayAudioEndKeepsTime ==
    /\ fan.cmd = "PLAY"
    /\ ~fan.inflight
    /\ fan.idx > Len(servers)
    /\ countdown_label' = IF is_auto_playing
                          THEN CountdownText(TRUE, last_auto_play_time, now)
                          ELSE countdown_label
    /\ fan' = NoFanout
    /\ UNCHANGED <<servers, inputs, sched, now, checked, anchor, state_file,
                   vars>>

\* play_audio after the loop: the countdown is reset when auto-play is on.
PlayAudioEnd ==
    /\ fan.cmd = "PLAY"
    /\ ~fan.inflight
    /\ fan.idx > Len(servers)
    /\ last_auto_play_time' = IF is_auto_playing THEN now ELSE last_auto_play_time
    /\ countdown_label' = IF is_auto_playing THEN CountdownText(TRUE, now, now)
                                              ELSE countdown_label
    /\ fan' = NoFanout
    /\ UNCHANGED <<servers, inputs, auto_play_checkbox, is_auto_playing,
                   auto_play_timer, countdown_timer, now, checked, anchor, state_file,
                   vars>>

\* stop_audio and ping_servers after the loop: the table is refreshed.
FanoutEnd ==
    /\ fan.cmd \in {"STOP", "PING"}
    /\ ~fan.inflight
    /\ fan.idx > Len(servers)
    /\ fan' = NoFanout
    /\ UNCHANGED <<servers, inputs, sched, now, checked,
                   countdown_label, anchor, state_file,
                   vars>>

\* -------------------------------------------------------------- scheduler
\* Mutant of IntervalRefused: only a negative interval is refused.
IntervalNegative == interval_input < 0

\* toggle_auto_play: `if interval <= 0`, the request to enable is refused.
IntervalRefused == interval_input <= 0

\* A timer after `if timer: timer.stop()`.
Stopped(timer) == IF timer = None THEN None ELSE "stopped"

\* Mutant of EnableAutoPlay: switching on does not stamp the time.
EnableKeepsTime ==
    /\ Idle
    /\ ~auto_play_checkbox
    /\ auto_play_checkbox' = TRUE
    /\ IF IntervalRefused
       THEN /\ fan' = IntervalWarning
            /\ UNCHANGED <<is_auto_playing, auto_play_timer, countdown_timer,
                           countdown_label, anchor>>
       ELSE /\ is_auto_playing' = TRUE
            /\ anchor' = [kind |-> "enable", at |-> now]
            /\ auto_play_timer' = "running"
            /\ countdown_timer' = "running"
            /\ countdown_label' = CountdownText(TRUE, last_auto_play_time, now)
            /\ UNCHANGED fan
    /\ checked' = NoCheck
    /\ UNCHANGED <<servers, inputs, last_auto_play_time, now, state_file,
                   vars>>

\* toggle_auto_play, the box gets checked: with a refused interval the
\* warning is shown, else auto-play is on and both timers run.
EnableAutoPlay ==
    /\ Idle
    /\ ~auto_play_checkbox
    /\ auto_play_checkbox' = TRUE
    /\ IF IntervalRefused
       THEN /\ fan' = IntervalWarning
            /\ UNCHANGED <<is_auto_playing, last_auto_play_time,
                           auto_play_timer, countdown_timer, countdown_label,
                           anchor>>
       ELSE /\ is_auto_playing' = TRUE
            /\ anchor' = [kind |-> "enable", at |-> now]
            /\ last_auto_play_time' = now
            /\ auto_play_timer' = "running"
            /\ countdown_timer' = "running"
            /\ countdown_label' = CountdownText(TRUE, now, now)
            /\ UNCHANGED fan
    /\ checked' = NoCheck
    /\ UNCHANGED <<servers, inputs, now, state_file,
                   vars>>

\* toggle_auto_play, the warning is dismissed: setChecked(False) unchecks
\* the box, which runs the handler's else branch, and the handler returns.
EnableRefused ==
    /\ fan = IntervalWarning
    /\ auto_play_checkbox' = FALSE
    /\ is_auto_playing' = FALSE
    /\ auto_play_timer' = Stopped(auto_play_timer)
    /\ countdown_timer' = Stopped(countdown_timer)
    /\ countdown_label' = NoLabel
    /\ anchor' = NoAnchor
    /\ fan' = NoFanout
    /\ UNCHANGED <<servers, inputs, last_auto_play_time, now, checked, state_file,
                   vars>>

\* Mutant of DisableAutoPlay: the box is unchecked, auto-play stays on.
DisableKeepsPlaying ==
    /\ Idle
    /\ auto_play_checkbox
    /\ auto_play_checkbox' = FALSE
    /\ countdown_label' = NoLabel
    /\ checked' = NoCheck
    /\ UNCHANGED <<servers, inputs, is_auto_playing, last_auto_play_time,
                   auto_play_timer, countdown_timer, now, fan, anchor, state_file,
                   vars>>

\* toggle_auto_play, the box gets unchecked.
DisableAutoPlay ==
    /\ Idle
    /\ auto_play_checkbox
    /\ auto_play_checkbox' = FALSE
    /\ is_auto_playing' = FALSE
    /\ auto_play_timer' = Stopped(auto_play_timer)
    /\ countdown_timer' = Stopped(countdown_timer)
    /\ countdown_label' = NoLabel
    /\ checked' = NoCheck
    /\ anchor' = NoAnchor
    /\ UNCHANGED <<servers, inputs, last_auto_play_time, now, fan, state_file,
                   vars>>

\* Mutant of IntervalElapsed: the interval must be exceeded.
IntervalExceeded(t) ==
    t - last_auto_play_time > interval_input * TicksPerMinute

\* `time_elapsed >= interval_minutes`, the elapsed time taken in minutes.
IntervalElapsed(t) ==
    t - last_auto_play_time >= interval_input * TicksPerMinute

\* auto_play_check passes its guards and triggers.
Triggers ==
    /\ is_auto_playing
    /\ last_auto_play_time # NoTime
    /\ InWindow(now)
    /\ IntervalElapsed(now)

\* auto_play_check, the auto-play timer's callback: the guards, and when
\* they pass the timestamp and play_audio up to the first send_command;
\* when play_audio returns at once, update_countdown follows here.
AutoPlayCheck ==
    /\ Idle
    /\ auto_play_timer = "running"
    /\ IF Triggers
       THEN /\ last_auto_play_time' = now
            /\ fan' = IF PlayRefused THEN fan
                                     ELSE StartFanout("PLAY", PlayRequest, TRUE)
            /\ countdown_label' = IF PlayRefused
                                  THEN CountdownText(TRUE, now, now)
                                  ELSE countdown_label
            /\ checked' = [at |-> now, triggered |-> TRUE,
                           request |-> PlayRequest, sent |-> ~PlayRefused]
            /\ anchor' = [kind |-> "trigger", at |-> now]
       ELSE /\ checked' = [NoCheck EXCEPT !.at = now]
            /\ UNCHANGED <<last_auto_play_time, fan, countdown_label, anchor>>
    /\ UNCHANGED <<servers, inputs, auto_play_checkbox, is_auto_playing,
                   auto_play_timer, countdown_timer, now, state_file,
                   vars>>

\* Mutant of UpdateCountdown: when no time remains the countdown itself
\* stamps the time and starts the PLAY.
UpdateCountdownPlays ==
    /\ Idle
    /\ countdown_timer = "running"
    /\ countdown_label' = CountdownText(is_auto_playing, last_auto_play_time, now)
    /\ IF countdown_label'.text = "soon"
       THEN /\ last_auto_play_time' = now
            /\ fan' = IF PlayRefused THEN fan
                                     ELSE StartFanout("PLAY", PlayRequest, FALSE)
       ELSE UNCHANGED <<last_auto_play_time, fan>>
    /\ checked' = NoCheck
    /\ UNCHANGED <<servers, inputs, auto_play_checkbox, is_auto_playing,
                   auto_play_timer, countdown_timer, now, anchor, state_file,
                   vars>>

\* update_countdown, the countdown timer's callback: the label is set anew.
UpdateCountdown ==
    /\ Idle
    /\ countdown_timer = "running"
    /\ countdown_label' = CountdownText(is_auto_playing, last_auto_play_time, now)
    /\ checked' = NoCheck
    /\ UNCHANGED <<servers, inputs, sched, now, fan, anchor, state_file,
                   vars>>

\* ------------------------------------------------------------ persistence
\* closeEvent: the state is saved, the timers are stopped, the window
\* closes.
CloseEvent ==
    /\ Idle
    /\ \E file \in SaveState(servers) :
          /\ state_file' = file
          /\ fan' = AppClosed(file = Written(servers))
    /\ auto_play_timer' = Stopped(auto_play_timer)
    /\ countdown_timer' = Stopped(countdown_timer)
    /\ checked' = NoCheck
    /\ UNCHANGED <<servers, inputs, auto_play_checkbox, is_auto_playing,
                   last_auto_play_time, countdown_label, now, anchor, vars>>

\* QSpinBox.setValue within the range of the box.
SetValue(value, minimum, maximum) ==
    IF value < minimum THEN minimum
    ELSE IF value > maximum THEN maximum ELSE value

\* QTimeEdit.setTime of a parsed text: a text that is no time changes
\* nothing.
SetTime(text, current) ==
    IF FromStringHHmm(text) = NoTime THEN current ELSE FromStringHHmm(text)

\* The application is started again: __init__ and init_ui give the
\* defaults, then load_state reads the state file; without a file, or with
\* one json.load cannot read, the defaults stay.
LoadState ==
    /\ fan.cmd \in {"closed", "closed unsaved"}
    /\ IF state_file.kind = "json"
       THEN /\ servers' = state_file.servers
            /\ filename_input' = state_file.filename
            /\ volume_input' = SetValue(state_file.volume, 0, 100)
            /\ playcount_input' = SetValue(state_file.playcount, 1, 1000)
            /\ interval_input' = SetValue(state_file.interval, 0, 1440)
            /\ start_time_input' = SetTime(state_file.start_time, 0)
            /\ end_time_input' = SetTime(state_file.end_time, DayMinutes - 1)
       ELSE /\ servers' = <<>>
            /\ filename_input' = ""
            /\ volume_input' = DefaultVolume
            /\ playcount_input' = 1
            /\ interval_input' = 0
            /\ start_time_input' = 0
            /\ end_time_input' = DayMinutes - 1
    /\ auto_play_checkbox' = FALSE
    /\ is_auto_playing' = FALSE
    /\ last_auto_play_time' = NoTime
    /\ auto_play_timer' = None
    /\ countdown_timer' = None
    /\ countdown_label' = NoLabel
    /\ fan' = NoFanout
    /\ checked' = Loaded
    /\ anchor' = NoAnchor
    /\ UNCHANGED <<now, state_file, vars>>

\* ------------------------------------------------------- specifications
allvars == <<vars, cvars>>

\* No command has gone to any node of the registry yet.
Registering == \A i \in DOMAIN servers : servers[i].last_request = None

\* The fan-out dispatcher with its registry, the nodes registered before
\* the first command goes out; the scheduler is never enabled.
DispatchNext ==
    \/ Registering /\ AddServer
    \/ \E f \in Filenames : SetFilename(f)
    \/ \E n \in 1..MaxPlaycount : SetPlaycount(n)
    \/ PlayAudio \/ StopAudio \/ PingServers
    \/ \E i \in 1..MaxServers : SendCommandStart(i) \/ SendCommandEnd(i)
    \/ PlayAudioEnd \/ FanoutEnd

SpecDispatch == Init /\ [][DispatchNext]_allvars

\* The scheduler with the Play button, over a registry read from the state
\* file.
SchedulerInit == NodeInit /\ \E registry \in LoadedRegistries : ControllerState(registry)

SchedulerNext ==
    \/ \E f \in Filenames : SetFilename(f)
    \/ \E n \in 1..MaxPlaycount : SetPlaycount(n)
    \/ \E m \in 0..MaxInterval : SetInterval(m)
    \/ \E s, e \in 0..(DayMinutes - 1) : SetWindow(s, e)
    \/ Tick
    \/ EnableAutoPlay \/ EnableRefused \/ DisableAutoPlay \/ AutoPlayCheck
    \/ UpdateCountdown
    \/ PlayAudio
    \/ \E i \in 1..MaxServers : SendCommandStart(i) \/ SendCommandEnd(i)
    \/ PlayAudioEnd

SpecScheduler == SchedulerInit /\ [][SchedulerNext]_allvars

\* The settings, closing and starting again: the registry grows, the fields
\* are edited, the application is closed and started.
Volumes == {DefaultVolume, 100}
ClockMinutes == {0, DayMinutes - 1, 1439}

PersistenceNext ==
    \/ AddServer
    \/ \E f \in Filenames : SetFilename(f)
    \/ \E v \in Volumes : SetVolume(v)
    \/ \E n \in 1..MaxPlaycount : SetPlaycount(n)
    \/ \E m \in 0..MaxInterval : SetInterval(m)
    \/ \E s, e \in ClockMinutes : SetWindow(s, e)
    \/ CloseEvent \/ LoadState

SpecPersistence == Init /\ [][PersistenceNext]_allvars

\* ---------------------------------------------------------------- claims
FinPcs == {"fin1", "fin2", "fin3"}
Own(t) == {p \in alive : p[1] = t}
Running(t) == tpc[t] \in SequencePcs \cup FinPcs \cup {"set_playing"}
NodeState == <<is_playing, current_file, current_process, play_thread,
               play_lock, tpc, tnum, nlaunch, alive>>

\* C1: at most one external player process is alive on the node at any
\* instant, whatever the interleaving of PLAY and STOP handlers.
C1_AtMostOnePlayer == Cardinality(alive) <= 1

\* C2: whenever stop_playback returns to its caller, is_playing is false
\* and no player process handle is held.
C2_StopReturnsCleared ==
    [][\A c \in Callers :
          (pc[c] \in {"sp_check", "sp_handle"} /\ pc'[c] = AfterStop(c))
          => (~is_playing' /\ current_process' = NoProc)]_vars

\* C3: once the Stop of a request (a STOP, or the Stop a PLAY begins with)
\* has set is_playing to false during a playback sequence, the playback
\* thread of that sequence launches no further player.
C3_NoLaunchAfterStop ==
    [][\A t \in Conn : nlaunch'[t] = nlaunch[t] + 1 => t \notin stopped]_vars

\* C4: a playback with playcount N that no Stop and no other PLAY
\* interrupts makes exactly N player invocations (N processes when no
\* launch fails), never more, and each is launched only after the one
\* before it has exited.
C4_ExactlyNSequential ==
    \A t \in Conn : (Running(t) /\ t \notin interrupted) =>
        /\ nlaunch[t] <= targs[t].playcount
        /\ tpc[t] \in FinPcs => tnum[t] = targs[t].playcount
        /\ (tpc[t] \in FinPcs /\ t \notin failed) => nlaunch[t] = targs[t].playcount
        /\ Own(t) \subseteq {<<t, tnum[t]>>}
        /\ tpc[t] \in {"loop", "popen"} \cup FinPcs => Own(t) = {}

\* C4 witness: an uninterrupted playback of two repetitions is over, both
\* players launched.
C4_Witness ==
    \E t \in Conn :
        /\ tpc[t] = "fin1" /\ t \notin interrupted /\ t \notin failed
        /\ targs[t].playcount = 2 /\ nlaunch[t] = 2

\* C5: stop_playback called while is_playing is false returns at once,
\* raises nothing and changes neither is_playing, current_file, the process
\* handle nor the play thread.
C5_StopIdempotent ==
    [][\A c \in Callers :
          (pc[c] = "sp_check" /\ ~is_playing /\ pc'[c] # pc[c])
          => /\ pc'[c] = AfterStop(c)
             /\ UNCHANGED <<is_playing, current_file, current_process, play_thread>>]_vars

\* C5 witness: a STOP has been handled on a node that never played; its
\* answer is ready.
C5_Witness ==
    \E h \in Conn :
        /\ pc[h] = "send" /\ hmsg[h].kind = "STOP" /\ hresp[h] = PlaybackStopped
        /\ \A t \in Conn : tpc[t] = "none"
        /\ ~is_playing /\ current_file = None /\ current_process = NoProc

MissingPlay(h) == hmsg[h].kind = "PLAY" /\ hmsg[h].filename \notin ExistingFiles

\* C6: a PLAY of a file that does not exist is answered ERROR (file not
\* found); its handler never enters stop_playback, starts no thread and no
\* process, and leaves the playback state as it was.
C6_MissingFileRejected ==
    /\ [](\A h \in Conn : MissingPlay(h) =>
            /\ pc[h] \in {"decode", "send"}
            /\ tpc[h] = "none"
            /\ pc[h] = "send" => (hresp[h] = FileNotFound /\ nsent[h] = 0))
    /\ [][\A h \in Conn : (MissingPlay(h) /\ pc'[h] # pc[h]) =>
            /\ UNCHANGED NodeState
            /\ pc[h] = "send" => (nsent'[h] = 1 /\ closed'[h])]_vars

\* C6 witness: the file-not-found answer is ready while a playback started
\* by another connection is still running its player.
C6_Witness ==
    \E h \in Conn :
        /\ MissingPlay(h) /\ pc[h] = "send" /\ hresp[h].status = "ERROR"
        /\ is_playing /\ current_process \in alive

PingOf(h) == hmsg[h].kind = "PING"

\* C8: handling a PING changes nothing of the node's playback state, and
\* its answer is OK with is_playing and current_file as the handler read
\* them.
C8_PingReadsOnly ==
    [][\A h \in Conn : (PingOf(h) /\ pc'[h] # pc[h]) =>
          /\ UNCHANGED NodeState
          /\ pc[h] = "ping1" => hresp'[h].is_playing = is_playing
          /\ pc[h] = "ping2" =>
                /\ hresp'[h].status = "OK"
                /\ hresp'[h].is_playing = hresp[h].is_playing
                /\ hresp'[h].current_file = current_file
          /\ pc[h] = "send" => (nsent'[h] = 1 /\ hresp[h].status = "OK")]_vars

\* C8 witness: a PING answer reporting a playback in progress is ready.
C8_Witness ==
    \E h \in Conn :
        /\ PingOf(h) /\ pc[h] = "send"
        /\ hresp[h].is_playing /\ hresp[h].current_file \in ExistingFiles
        /\ is_playing /\ current_file \in ExistingFiles

\* C9: a message that cannot be decoded as a request object (bytes that are
\* not UTF-8, text that is not JSON, JSON that is no object) is answered
\* with an ERROR response before its connection is closed, and the step
\* touches neither the accept loop nor another handler.
C9_UndecodableAnswered ==
    [][\A h \in Conn :
          (hmsg[h].kind \in {"BADUTF8", "BADJSON", "NONOBJECT"}
             /\ pc'[h] # pc[h]) =>
            /\ closed'[h] => (nsent'[h] = 1 /\ hresp[h].status = "ERROR")
            /\ pc'[MainThread] = pc[MainThread] /\ running' = running
            /\ \A g \in Conn \ {h} : pc'[g] = pc[g]]_vars

\* C10: a handler dispatches at most one request and writes at most one
\* response; once it has written it, it has closed; it ends only with its
\* socket closed and does nothing after closing.
C10_OneShot ==
    \A h \in Conn :
        /\ nreq[h] <= 1
        /\ nsent[h] <= 1
        /\ nsent[h] = 1 => closed[h]
        /\ closed[h] <=> pc[h] = "done"

\* C10 witness: one connection was answered and closed, another was closed
\* without an answer.
C10_Witness ==
    \E g, h \in Conn :
        /\ pc[g] = "done" /\ closed[g] /\ nsent[g] = 1
        /\ pc[h] = "done" /\ closed[h] /\ nsent[h] = 0

\* ----------------------------------------------------- controller claims
\* A fan-out returns to the event loop in this step.
FanoutReturns == InFanout /\ fan'.cmd = "none"
\* The exchange with the i-th node ends in this step, with this outcome.
ExchangeEnds(i) == fan.inflight /\ ~fan'.inflight /\ fan.idx = i
LastOutcome == fan'.log[Len(fan'.log)]
OutcomeStatuses == {"OK", "ERROR", "Timeout", "Refused", "Error"}

\* C11: when a fan-out (PLAY, STOP or PING) returns, every node of the
\* registry has one of the outcome values as its status, none is Unknown.
C11_NoneLeftUnknown ==
    [][FanoutReturns =>
          \A i \in DOMAIN servers' :
              /\ servers'[i].status \in OutcomeStatuses
              /\ servers'[i].status # "Unknown"]_allvars

\* C11 witness: a PLAY fan-out over two nodes is over, the first node
\* refused, the second answered.
C11_Witness ==
    /\ Idle /\ Len(servers) = 2
    /\ servers[1].status = "Refused" /\ servers[1].last_request = "PLAY"
    /\ servers[2].status = "OK" /\ servers[2].last_request = "PLAY"

\* C12: a failed exchange never aborts the batch: the loop attempts the
\* nodes one by one, each exactly once, returns only after the last, and
\* what is recorded for a node is what its own exchange gave.
C12_BatchNeverAborted ==
    /\ [](InFanout =>
            /\ Len(fan.log) = fan.idx - 1
            /\ fan.idx <= Len(servers) + 1
            /\ \A i \in 1..Len(fan.log) :
                  /\ servers[i].last_request = fan.cmd
                  /\ fan.log[i].kind = "timeout" => servers[i].status = "Timeout"
                  /\ fan.log[i].kind = "refused" => servers[i].status = "Refused"
                  /\ fan.log[i].kind \in FailureKinds \ {"timeout", "refused"}
                        => servers[i].status = "Error"
                  /\ fan.log[i].kind = "response"
                        => servers[i].status \in {"OK", "ERROR"})
    /\ [][FanoutReturns => Len(fan.log) = Len(servers)]_allvars

\* C12 witness: the exchange with the first node was refused and the one
\* with the second node then got its answer.
C12_Witness ==
    /\ fan.cmd = "PLAY" /\ Len(servers) = 2 /\ fan.idx = 3
    /\ fan.log[1].kind = "refused" /\ fan.log[2].kind = "response"
    /\ servers[2].is_playing

C14_FailureStatuses ==
    [][\A i \in 1..MaxServers :
          (ExchangeEnds(i) /\ LastOutcome.kind # "response") =>
              /\ servers'[i].status = "Timeout" <=> LastOutcome.kind = "timeout"
              /\ servers'[i].status = "Refused" <=> LastOutcome.kind = "refused"
              /\ servers'[i].status = "Error"
                    <=> LastOutcome.kind \notin {"timeout", "refused"}
              /\ servers'[i].status \notin {"OK", "ERROR"}]_allvars

\* C14 witness: one node timed out, the other sent an empty response.
C14_Witness ==
    /\ Idle /\ Len(servers) = 2
    /\ servers[1].status = "Timeout" /\ servers[2].status = "Error"
    /\ servers[1].last_request = "PING" /\ servers[2].last_request = "PING"

\* C15: in a fan-out over two or more nodes the exchanges run
\* concurrently: while the exchange with a node is in flight, the exchange
\* with any later node can start; the batch is over only when none is in
\* flight.
C15_ExchangesConcurrent ==
    /\ \A i, j \in 1..MaxServers :
          (fan.inflight /\ fan.idx = i /\ i < j /\ j <= Len(servers))
              => ENABLED SendCommandStart(j)
    /\ Idle => ~fan.inflight

\* ------------------------------------------------------ scheduler claims
\* auto_play_check runs in this step (a check that changes nothing at all
\* is a stuttering step).
CheckStep == Idle /\ checked' # NoCheck
Enabled == is_auto_playing /\ last_auto_play_time # NoTime
\* The minute of the day of a clock value, as HH:mm shows it.
Minute(t) == TimeOfDay(t) \div TicksPerMinute
TimerRuns == auto_play_timer = "running" \/ countdown_timer = "running"
\* A positive interval has elapsed since last_auto_play_time.
Due == /\ interval_input > 0
       /\ now - last_auto_play_time >= interval_input * TicksPerMinute
\* The instant of the check lies between the start and end times.
Inside == /\ start_time_input * TicksPerMinute <= TimeOfDay(now)
          /\ TimeOfDay(now) <= end_time_input * TicksPerMinute

\* C16: a request to enable auto-play while the interval is 0 is refused:
\* the warning is shown, and through it is_auto_playing stays false, no
\* timer runs and last_auto_play_time keeps its value.
C16_ZeroIntervalRefused ==
    /\ [](fan = IntervalWarning => (~is_auto_playing /\ ~TimerRuns))
    /\ [][/\ (Idle /\ ~auto_play_checkbox /\ auto_play_checkbox'
                 /\ interval_input = 0)
               => (/\ fan' = IntervalWarning
                   /\ ~is_auto_playing' /\ ~TimerRuns'
                   /\ last_auto_play_time' = last_auto_play_time)
          /\ (fan = IntervalWarning /\ fan' # fan)
               => (/\ Idle' /\ ~auto_play_checkbox'
                   /\ ~is_auto_playing' /\ ~TimerRuns'
                   /\ last_auto_play_time' = last_auto_play_time)]_allvars

\* C16 witness: auto-play was on earlier and was switched off; the interval
\* is 0 now and a later request to enable is being refused.
C16_Witness ==
    /\ fan = IntervalWarning /\ interval_input = 0
    /\ last_auto_play_time # NoTime /\ last_auto_play_time < now
    /\ auto_play_timer = "stopped"

\* C17: a check at a time of day outside [start, end] does not trigger and
\* changes no scheduler state, whatever time has elapsed.
C17_OutsideWindowNoTrigger ==
    [][(CheckStep /\ (Minute(now) < start_time_input
                        \/ Minute(now) > end_time_input))
          => /\ ~checked'.triggered
             /\ fan' = fan
             /\ UNCHANGED sched]_allvars

\* C17 witness: auto-play is on, the interval has elapsed, and a check one
\* minute before the start of the window has not triggered.
C17_Witness ==
    /\ Idle /\ checked.at = now /\ ~checked.triggered
    /\ Enabled /\ Due
    /\ start_time_input <= end_time_input
    /\ Minute(now) = start_time_input - 1

\* C18 as claimed: a check while enabled, inside the window and with the
\* (positive) interval elapsed, starts the fan-out of a PLAY with the
\* configured filename, volume and playcount to every node, after which
\* last_auto_play_time is the time of the check.
C18_TriggerPlaysAndStampsCheck ==
    [][/\ (CheckStep /\ Enabled /\ Inside /\ Due
             /\ filename_input # "" /\ servers # <<>>)
            => fan' = StartFanout("PLAY", PlayRequest, TRUE)
       /\ (FanoutReturns /\ fan.auto /\ interval_input > 0)
            => (/\ Len(fan.log) = Len(servers)
                /\ last_auto_play_time' = checked.at)]_allvars

\* C18 as amended: such a check sets last_auto_play_time to its own time
\* and calls play_audio; with a filename and a node configured the PLAY
\* with the configured filename, volume and playcount goes to every node
\* and last_auto_play_time is then set again, to the time the fan-out
\* returned; without them nothing is sent.
C18_TriggerStampsAndPlays ==
    /\ [](fan.auto => (/\ fan.cmd = "PLAY" /\ checked.triggered /\ checked.sent
                       /\ fan.request = checked.request
                       /\ is_auto_playing
                       /\ last_auto_play_time = checked.at))
    /\ [][/\ (CheckStep /\ Enabled /\ Inside /\ Due)
               => (/\ checked'.triggered
                   /\ last_auto_play_time' = now
                   /\ fan' = IF filename_input = "" \/ servers = <<>>
                             THEN fan
                             ELSE StartFanout("PLAY",
                                     [command |-> "PLAY",
                                      filename |-> filename_input,
                                      volume |-> volume_input,
                                      playcount |-> playcount_input], TRUE))
          /\ (FanoutReturns /\ fan.auto)
               => (/\ Len(fan.log) = Len(servers)
                   /\ \A i \in DOMAIN servers : servers'[i].last_request = "PLAY"
                   /\ last_auto_play_time' = now
                   /\ last_auto_play_time' >= checked.at)]_allvars

\* C18 witness: a triggered check sent its PLAY to the node, and the
\* fan-out returned one tick after the check.
C18_Witness ==
    /\ Idle /\ checked.triggered /\ checked.sent
    /\ servers # <<>> /\ servers[1].last_request = "PLAY"
    /\ last_auto_play_time = checked.at + 1

\* C19: the window is inclusive at HH:mm resolution: a check at any
\* instant of the start minute, of the end minute or of a minute between
\* them, with the interval elapsed, triggers.
C19_WindowInclusiveToTheMinute ==
    [][(/\ CheckStep /\ Enabled /\ Due
        /\ start_time_input <= Minute(now) /\ Minute(now) <= end_time_input)
          => checked'.triggered]_allvars

\* C20: with the end of the window earlier than its start no check
\* triggers, at any time of day.
C20_NoWrapPastMidnight ==
    [][(CheckStep /\ end_time_input < start_time_input)
          => /\ ~checked'.triggered
             /\ fan' = fan
             /\ UNCHANGED sched]_allvars

\* C20 witness: the window ends before it starts, auto-play is on, the
\* interval has elapsed, and a check after the start time has not
\* triggered.
C20_Witness ==
    /\ Idle /\ checked.at = now /\ ~checked.triggered
    /\ Enabled /\ Due
    /\ end_time_input < start_time_input
    /\ TimeOfDay(now) >= ToPyTime(start_time_input)

\* C21: an interval of 0 means no scheduling: no check starts the fan-out
\* of a PLAY while the configured interval is 0, also when the interval was
\* set to 0 after auto-play had been switched on.
C21_ZeroIntervalNeverTriggers ==
    [][(CheckStep /\ interval_input = 0) => fan' = fan]_allvars

\* The countdown timer's callback runs in this step and changes the label:
\* of the callbacks that start from the event loop it is the one that
\* leaves the clock, the input fields and the check box alone and is no
\* auto_play_check.
CountdownStep ==
    /\ Idle /\ countdown_timer = "running"
    /\ countdown_label' # countdown_label
    /\ checked' = NoCheck
    /\ UNCHANGED <<inputs, now, auto_play_checkbox>>

\* C22: update_countdown only observes: a countdown tick sends nothing to
\* any node, starts no fan-out and leaves is_auto_playing,
\* last_auto_play_time, the timers and the registry as they were, inside or
\* outside the window and with time remaining or not.
C22_CountdownObservesOnly ==
    [][CountdownStep
          => /\ fan' = fan
             /\ servers' = servers
             /\ is_auto_playing' = is_auto_playing
             /\ last_auto_play_time' = last_auto_play_time
             /\ auto_play_timer' = auto_play_timer
             /\ countdown_timer' = countdown_timer
             /\ UNCHANGED vars]_allvars

\* C22 witness: a countdown tick half a minute after auto-play was switched
\* on has put the remaining half minute into the label (every other
\* callback that sets the label does so with no time elapsed); nothing was
\* sent and the timestamp is the one of the switch.
C22_Witness ==
    /\ Idle /\ is_auto_playing /\ countdown_label = Label("next", 1)
    /\ interval_input = 1 /\ now - last_auto_play_time = 1
    /\ servers # <<>> /\ servers[1].last_request = None

\* A PLAY fan-out started by the Play button returns in this step.
ManualPlayReturns == FanoutReturns /\ fan.cmd = "PLAY" /\ ~fan.auto

\* C23: a Play the user issues while auto-play is on (a filename and a node
\* configured, so that the PLAY goes out) resets last_auto_play_time to the
\* time of that Play, the moment its fan-out returns, and the next check
\* to trigger comes no sooner than one interval after the Play was issued.
C23_ManualPlayResets ==
    [][/\ (ManualPlayReturns /\ is_auto_playing)
            => (/\ last_auto_play_time' = now
                /\ anchor.kind = "play" /\ anchor.at <= now
                /\ is_auto_playing' /\ anchor' = anchor)
       /\ (CheckStep /\ checked'.triggered /\ anchor.kind = "play")
            => now - anchor.at >= interval_input * TicksPerMinute]_allvars

\* C23 witness: a Play issued half a minute after auto-play was switched on
\* took a tick and moved the timestamp; one interval after it the next
\* check is due.
C23_Witness ==
    /\ Idle /\ is_auto_playing /\ anchor.kind = "play" /\ anchor.at = 1
    /\ last_auto_play_time = anchor.at + 1
    /\ Due /\ Inside /\ auto_play_timer = "running"
    /\ now - last_auto_play_time = interval_input * TicksPerMinute

\* C24: unchecking the box switches auto-play off in that very step
\* (is_auto_playing false, no timer running, no fan-out touched); while the
\* box is unchecked no check triggers and no PLAY of the scheduler starts,
\* whatever the elapsed time and the time of day; the Play and Stop buttons
\* and the health poll stay available, and a Play of the button still goes
\* to every node and leaves the scheduler as it is.
C24_DisableImmediate ==
    /\ [](~auto_play_checkbox => (~is_auto_playing /\ ~TimerRuns /\ ~fan.auto))
    /\ []((Idle /\ ~auto_play_checkbox) =>
            /\ ENABLED StopAudio
            /\ ENABLED PingServers
            /\ ~PlayRefused => ENABLED (PlayAudio /\ fan'.cmd = "PLAY"))
    /\ [][/\ (Idle /\ auto_play_checkbox /\ ~auto_play_checkbox')
               => (~is_auto_playing' /\ ~TimerRuns' /\ fan' = fan)
          /\ (~auto_play_checkbox /\ ~auto_play_checkbox')
               => (/\ ~(CheckStep /\ checked'.triggered)
                   /\ ~fan'.auto
                   /\ last_auto_play_time' = last_auto_play_time
                   /\ ~is_auto_playing'
                   /\ ManualPlayReturns => Len(fan.log) = Len(servers))]_allvars

\* C24 witness: auto-play was on and was switched off; the interval has
\* since elapsed inside the window, no check has triggered, and a Play of
\* the button went to the node.
C24_Witness ==
    /\ Idle /\ ~auto_play_checkbox /\ auto_play_timer = "stopped"
    /\ last_auto_play_time # NoTime /\ Due /\ Inside
    /\ filename_input # "" /\ servers # <<>>
    /\ servers[1].last_request = "PLAY" /\ servers[1].status = "OK"
    /\ last_auto_play_time = 0

\* C25: while the interval stays as it is, a check triggers no sooner than
\* `interval` minutes after the latest of: auto-play being switched on, the
\* check that triggered before, and a Play issued with the button while
\* auto-play is on; switching on stamps the time, sends nothing, and no
\* check at the instant of switching on triggers.
C25_FullIntervalBetweenTriggers ==
    /\ [](anchor.kind = "enable" => interval_input > 0)
    /\ [](anchor # NoAnchor => (is_auto_playing /\ anchor.at <= now))
    /\ [][/\ (CheckStep /\ checked'.triggered /\ anchor # NoAnchor)
               => now - anchor.at >= interval_input * TicksPerMinute
          /\ (CheckStep /\ anchor.kind = "enable" /\ anchor.at = now)
               => (~checked'.triggered /\ fan' = fan)
          /\ (Idle /\ ~is_auto_playing /\ is_auto_playing')
               => (/\ last_auto_play_time' = now
                   /\ fan' = fan
                   /\ checked' = NoCheck)]_allvars

\* C25 witness: a check triggered in the second minute, a full interval or
\* more after auto-play was switched on, and one interval after that check
\* the next check is due.
C25_Witness ==
    /\ Idle /\ is_auto_playing /\ auto_play_timer = "running"
    /\ anchor.kind = "trigger" /\ anchor.at >= 3
    /\ interval_input = 1 /\ now - anchor.at = TicksPerMinute
    /\ Due /\ Inside /\ ~PlayRefused

\* ---------------------------------------------------- persistence claims
\* What the state file keeps of a node for the next session.
Identity(server) ==
    [name |-> server.name, hostname |-> server.hostname, port |-> server.port]

\* C26: what save_state wrote, load_state reads back: when the application
\* is started after a close that saved its state, the registry has the
\* same nodes (name, hostname, port) in the same order and filename,
\* volume, play count, interval, start and end time are what they were at
\* the close (which the closed application still shows in the step's first
\* state); a state file that was written always holds two times.
C26_SaveLoadRoundTrip ==
    /\ [](state_file.kind = "json" =>
            /\ FromStringHHmm(state_file.start_time) # NoTime
            /\ FromStringHHmm(state_file.end_time) # NoTime)
    /\ [][(fan.cmd = "closed" /\ fan'.cmd = "none") =>
            /\ Len(servers') = Len(servers)
            /\ \A i \in DOMAIN servers :
                  Identity(servers'[i]) = Identity(servers[i])
            /\ filename_input' = filename_input
            /\ volume_input' = volume_input
            /\ playcount_input' = playcount_input
            /\ interval_input' = interval_input
            /\ start_time_input' = start_time_input
            /\ end_time_input' = end_time_input]_allvars

\* C26 witness: a session with two nodes and no field at its default was
\* closed and started again, the window from the second minute of the day
\* to 23:59.
C26_Witness ==
    /\ Idle /\ checked = Loaded
    /\ Len(servers) = 2 /\ servers[2].name = "pi2" /\ servers[2].port = DefaultPort
    /\ filename_input = "a.mp3" /\ volume_input = 100
    /\ playcount_input = 2 /\ interval_input = 1
    /\ start_time_input = DayMinutes - 1 /\ end_time_input = 1439
    /\ state_file = Written(servers)

\* ------------------------------------------------------ node claims, two
\* C27: when the accept loop has been left and the process ends, the
\* shutdown has stopped the playback it found active (no player is left
\* alive) and has closed the listening socket.  Taken where one connection
\* was accepted and the shutdown's stop_playback did find its playback
\* active.
C27_ShutdownStopsAndCloses ==
    (pc[MainThread] = "exited" /\ nconn = 1 /\ interrupted # {})
        => (alive = {} /\ server_socket # "open")

\* C28: once a STOP has been answered and no PLAY has been received since,
\* no player is launched: a playback thread of an earlier PLAY that was
\* waiting for the lock or was not yet marked active when the STOP ran does
\* not start playing after the answer.
C28_NoLaunchAfterStopAnswered ==
    [][\A t \in Conn : nlaunch'[t] = nlaunch[t] + 1 => ~stop_answered]_vars

\* C29: the pair a PING reports is consistent: in the answer handle_ping
\* has built, is_playing is true exactly when current_file is a file name,
\* also while a playback thread starts or another handler stops the
\* playback.
C29_PingPairConsistent ==
    \A h \in Conn :
        (PingOf(h) /\ pc[h] = "send")
            => (hresp[h].is_playing <=> hresp[h].current_file # None)

\* C30: a handler that received a non-empty message closes its connection
\* only after it has written exactly one response to it, whatever the
\* message was: a request, malformed text, JSON that is no object, or an
\* object whose command is missing or unknown.
C30_OneResponsePerMessage ==
    [][\A h \in Conn :
          (closed'[h] /\ ~closed[h]
             /\ hmsg[h].kind \notin {"none", "EMPTY", "RECVERR"})
            => nsent'[h] = 1]_vars

NodeIdle ==
    /\ ~is_playing /\ current_file = None
    /\ current_process = NoProc /\ play_lock = NoThread

\* C32: playback always ends. When every thread of the node keeps taking
\* its steps and every player process exits, then, once no further command
\* arrives, the node of a running server comes to the idle state with the
\* play lock released and stays there: after a PLAY played to its end as
\* well as after one cut short by a Stop or by a launch failure.
C32_PlaybackEnds == <>[](ProcessUp => NodeIdle)

\* C32 witness: the playback thread of the only connection is over, its
\* player processes have exited, and the running node is idle again.
C32_Witness ==
    /\ ProcessUp /\ running /\ nconn = 1
    /\ tpc[1] = "done" /\ alive = {}
    /\ NodeIdle

====
